---- MODULE Spec2Model ----
(***************************************************************************)
(* Market-breadth backend (src/app.py): the /run-daily handler that builds *)
(* the per-symbol hard data (rolling sums of closes and the 52-week high)  *)
(* and writes it to the universe's hard-data file, and the /breadth        *)
(* handler that recombines that file with one live quote per symbol and    *)
(* upserts one row per trading date into the historical archive.           *)
(*                                                                         *)
(* Representation.  Prices are integers (the code's floats, in the         *)
(* smallest price unit).  A value that may be missing is a sequence of     *)
(* length at most one: <<>> is the code's "NIL" string or NaN, and <<v>>   *)
(* is the value v; None (a JSON null of the upstream) is a value of its    *)
(* own.  A date is a day number, day 1 being 2024-01-01;                   *)
(* IsoFormat gives its str() form, the form the archive file holds.        *)
(* A data frame is a sequence of rows.  A file is a record with the flag   *)
(* exists and its lines (or rows) in order.                                *)
(***************************************************************************)
EXTENDS Integers, Sequences, FiniteSets, TLC

VARIABLES
    HOLIDAYS,           \* the process-wide holiday set (line 41)
    symbols,            \* the universe file: normalized symbols, in order
    hardFile,           \* hard_data/<universe>_breadth.csv
    histFile,           \* historical_data/<universe>_breadth.csv
    \* ---- /run-daily request
    dpc,                \* position of the run_daily handler
    di,                 \* index of the next symbol of its loop
    rows,               \* its list of built records
    generated_at,       \* its timestamp (the number of the run)
    dresp_raw,          \* the upstream's answer to its latest fetch
    outcomes,           \* how each symbol processed so far ended
    flushed,            \* number of lines of the new file already on disk
    dresp,              \* its JSON response
    previous,           \* the file as it was when the rebuild opened it
    \* ---- /breadth request
    bpc,                \* position of the breadth handler
    bi,                 \* index of the next row of hard_df
    hard_timestamp,     \* line 154
    hard_df,            \* line 156
    counts,             \* line 158, with new_highs/high_available
    last_trading_date,  \* line 172
    quotes,             \* number of rows processed whose quote arrived
    bresp,              \* its JSON response
    \* ---- bookkeeping of the bounded exploration
    nRuns, nReqs

vars == <<HOLIDAYS, symbols, hardFile, histFile,
          dpc, di, rows, generated_at, dresp_raw, outcomes, flushed, dresp,
          previous,
          bpc, bi, hard_timestamp, hard_df, counts,
          last_trading_date, quotes, bresp, nRuns, nReqs>>

dailyVars == <<dpc, di, rows, generated_at, dresp_raw, outcomes, flushed,
               dresp, previous>>
breadthVars == <<bpc, bi, hard_timestamp, hard_df, counts,
                 last_trading_date, quotes, bresp>>

---------------------------------------------------------------------------
(* Bounds of the exploration.                                              *)

Today == 300          \* the day number of the run
MaxSlack == 2         \* histories have N .. N+MaxSlack bars, N a window
MaxShape == 1         \* close patterns 0 .. MaxShape of a history
MaxQuote == 3         \* live closes 0 .. MaxQuote
MaxRuns == 2          \* /run-daily requests of the concurrent service
MaxRequests == 1      \* /breadth requests racing with the rebuilds

(* Program constants.                                                      *)

MinQualifyingDays == 20
HttpOk == 200

Windows == <<19, 49, 99, 199>>
Periods == <<20, 50, 100, 200>>
Buckets == <<"20MA", "50MA", "100MA", "200MA">>

---------------------------------------------------------------------------
(* Optional values, sums, dates.                                           *)

NIL == <<>>
NaN == <<>>
Some(v) == <<v>>
\* Python's None, what r.json() makes of a JSON null: neither NaN nor a
\* number.
None == <<0, 0>>

\* s[lo] + ... + s[hi], by halves.
RECURSIVE SumRange(_, _, _)
SumRange(s, lo, hi) ==
    IF lo > hi THEN 0
    ELSE IF lo = hi THEN s[lo]
    ELSE LET mid == (lo + hi) \div 2
         IN  SumRange(s, lo, mid) + SumRange(s, mid + 1, hi)

SumSeq(s) == SumRange(s, 1, Len(s))

Closes(df) == [i \in 1..Len(df) |-> df[i].Close[1]]

RECURSIVE Gcd(_, _)
Gcd(a, b) == IF b = 0 THEN a ELSE Gcd(b, a % b)

IsLeap(y) == (y % 4 = 0 /\ y % 100 # 0) \/ y % 400 = 0
YearLen(y) == IF IsLeap(y) THEN 366 ELSE 365
MonthLen(y, m) ==
    IF m = 2 THEN (IF IsLeap(y) THEN 29 ELSE 28)
    ELSE IF m \in {4, 6, 9, 11} THEN 30 ELSE 31

RECURSIVE YearDay(_, _)
YearDay(n, y) ==
    IF n > YearLen(y) THEN YearDay(n - YearLen(y), y + 1) ELSE <<y, n>>

RECURSIVE MonthDay(_, _, _)
MonthDay(y, m, n) ==
    IF n > MonthLen(y, m) THEN MonthDay(y, m + 1, n - MonthLen(y, m))
    ELSE <<y, m, n>>

\* The calendar date of day number n >= 1, as <<year, month, day>>.
DateOf(n) == LET yd == YearDay(n, 2024) IN MonthDay(yd[1], 1, yd[2])

Digit(k) == <<"0", "1", "2", "3", "4", "5", "6", "7", "8", "9">>[k + 1]
Pad2(k) == <<Digit(k \div 10), Digit(k % 10)>>
Pad4(k) ==
    <<Digit(k \div 1000), Digit((k \div 100) % 10)>> \o Pad2(k % 100)

\* str(date): "YYYY-MM-DD", a sequence of characters.
IsoFormat(n) ==
    LET d == DateOf(n)
    IN  Pad4(d[1]) \o <<"-">> \o Pad2(d[2]) \o <<"-">> \o Pad2(d[3])

---------------------------------------------------------------------------
(* fetch_stock_data and sum_last.                                          *)

\* Line 59, pd.DataFrame(rows, columns=header): a column that holds a
\* number or NaN is a float column and its None become NaN; a column of
\* nothing but None keeps them (dtype object).
AllNone(data, col) == \A i \in 1..Len(data) : data[i][col] = None
InferColumn(data, col, v) ==
    IF v = None /\ ~AllNone(data, col) THEN NaN ELSE v
DataFrame(data) ==
    [i \in 1..Len(data) |->
        [data[i] EXCEPT !.High = InferColumn(data, "High", @),
                        !.w52 = InferColumn(data, "w52", @)]]

\* Line 61, dropna(subset=["Date", "Close"]): NaN and None are both missing.
IsNa(v) == v = NaN \/ v = None
DropNa(df) == SelectSeq(df, LAMBDA b : ~IsNa(b.Date) /\ ~IsNa(b.Close))

\* Lines 43-63: None, or the data frame of the rows that have a Date and
\* a Close.
fetch_stock_data(resp) ==
    IF resp.status # HttpOk THEN [none |-> TRUE, df |-> <<>>]
    ELSE IF Len(resp.rows) < 1 THEN [none |-> TRUE, df |-> <<>>]
    ELSE [none |-> FALSE, df |-> DropNa(DataFrame(resp.rows))]

\* Lines 65-68.
mutant_sum_last_le(series, n) ==
    IF Len(series) <= n THEN NIL
    ELSE Some(SumSeq(SubSeq(series, Len(series) - n + 1, Len(series))))

sum_last(series, n) ==
    IF Len(series) < n THEN NIL
    ELSE Some(SumSeq(SubSeq(series, Len(series) - n + 1, Len(series))))

---------------------------------------------------------------------------
(* The upstream data source: what GET API_BASE may answer.                 *)

CloseAt(day, k) == IF k = 0 THEN 0 ELSE ((day * k) % 3) + 1
HighAt(day, k) == CloseAt(day, k) + (day % 2)

\* The provider's own 52weekhigh field: missing, the highest High of the
\* pattern, or a higher value that an older bar or the live bar set.
W52Modes == {"max", "older"}
W52At(k, w) ==
    LET top == IF k = 0 THEN 1 ELSE 4
    IN  IF w = "nan" THEN NaN
        ELSE IF w = "max" THEN Some(top) ELSE Some(top + 1)

\* n consecutive daily bars ending today; nan says which closes are missing.
Bars(n, k, w, nan) ==
    [i \in 1..n |->
        LET day == Today - n + i
        IN  [Date  |-> Some(day),
             Close |-> IF nan = "all" \/ (nan = "one" /\ i = n - 1)
                       THEN NaN ELSE Some(CloseAt(day, k)),
             High  |-> Some(HighAt(day, k)),
             w52   |-> W52At(k, w)]]

Failed == [status |-> 500, rows |-> <<>>]
NoRows == [status |-> HttpOk, rows |-> <<>>]
Answer(bars) == [status |-> HttpOk, rows |-> bars]

HistoryLens ==
    {1} \cup {Windows[j] + d : j \in 1..Len(Windows), d \in 0..MaxSlack}

\* The answers to the 370-day request of /run-daily.
HistoryResponses ==
    {Failed, NoRows}
    \cup {Answer(Bars(n, k, w, "none")) :
            n \in HistoryLens, k \in 0..MaxShape, w \in W52Modes}
    \cup {Answer(Bars(n, 1, "nan", "none")) : n \in {21}}
    \cup {Answer(Bars(n, 1, "max", m)) : n \in {3, 21}, m \in {"one", "all"}}

\* A small part of them, for the rebuilds that race with /breadth.
SmallHistoryResponses == {Failed, Answer(Bars(201, 1, "max", "none"))}

HolidayChoices == {{}, {Today}, {Today - 1, Today - 25}}

---------------------------------------------------------------------------
(* /run-daily (lines 85-136).                                              *)

FilterHolidays(df, holidays) ==
    SelectSeq(df, LAMBDA b : b.Date[1] \notin holidays)

DropLast(df) == SubSeq(df, 1, Len(df) - 1)

\* Lines 109-110: the closed qualifying bars of a fetched history.
mutant_drop_before_filter(df, holidays) ==
    FilterHolidays(DropLast(df), holidays)

Qualifying(df, holidays) == DropLast(FilterHolidays(df, holidays))

\* Lines 115-124: the record of a symbol with at least 20 qualifying bars.
BuildRow(symbol, df) ==
    [symbol   |-> symbol,
     sum_19   |-> sum_last(Closes(df), Windows[1]),
     sum_49   |-> sum_last(Closes(df), Windows[2]),
     sum_99   |-> sum_last(Closes(df), Windows[3]),
     sum_199  |-> sum_last(Closes(df), Windows[4]),
     high_52w |-> df[Len(df)].w52]

\* Lines 105-113: how the loop body ends for one upstream answer.
mutant_threshold_19(resp, holidays) ==
    LET f == fetch_stock_data(resp)
    IN  IF f.none THEN "fetch_failed"
        ELSE IF Len(f.df) = 0 THEN "empty"
        ELSE IF Len(Qualifying(f.df, holidays)) < 19 THEN "insufficient"
        ELSE "built"

Outcome(resp, holidays) ==
    LET f == fetch_stock_data(resp)
    IN  IF f.none THEN "fetch_failed"
        ELSE IF Len(f.df) = 0 THEN "empty"
        ELSE IF Len(Qualifying(f.df, holidays)) < MinQualifyingDays
             THEN "insufficient"
        ELSE "built"

NoRow == [symbol |-> "", sum_19 |-> NIL, sum_49 |-> NIL, sum_99 |-> NIL,
          sum_199 |-> NIL, high_52w |-> NaN]

CommentLine(gen) == [kind |-> "comment", gen |-> gen, row |-> NoRow]
BlankLine == [kind |-> "blank", gen |-> 0, row |-> NoRow]
HeaderLine == [kind |-> "header", gen |-> 0, row |-> NoRow]
\* to_csv writes NaN and None alike as an empty field.
DataLine(r) ==
    [kind |-> "data", gen |-> 0,
     row |-> [r EXCEPT !.high_52w = IF @ = None THEN NaN ELSE @]]

\* DataFrame(rows).to_csv(index=False): the column names and one line per
\* record; a frame without records has no columns and gives one empty line.
ToCsv(rs) ==
    IF rs = <<>> THEN <<BlankLine>>
    ELSE <<HeaderLine>> \o [i \in 1..Len(rs) |-> DataLine(rs[i])]

\* Lines 127-129: the whole text of the new hard-data file.
FileLines(gen, rs) == <<CommentLine(gen)>> \o ToCsv(rs)

NoFile == [exists |-> FALSE, lines |-> <<>>]
NoResponse == [status |-> 0, error |-> ""]

\* Lines 88-102: the universe is read, the list of records is empty.
RunDailyBegin ==
    /\ dpc = "idle"
    /\ nRuns > 0
    /\ nRuns' = nRuns - 1
    /\ dpc' = "loop"
    /\ di' = 1
    /\ rows' = <<>>
    /\ outcomes' = <<>>
    /\ generated_at' = generated_at + 1
    /\ dresp' = NoResponse
    /\ dresp_raw' = Failed
    /\ UNCHANGED <<flushed, previous>>

\* Lines 104-124: one pass of the loop, for symbols[di].
RunDailySymbol(responses) ==
    /\ dpc = "loop"
    /\ di <= Len(symbols)
    /\ \E resp \in responses :
          LET o == Outcome(resp, HOLIDAYS)
              f == fetch_stock_data(resp)
          IN  /\ dresp_raw' = resp
              /\ outcomes' = Append(outcomes, o)
              /\ rows' = IF o = "built"
                         THEN Append(rows,
                                BuildRow(symbols[di],
                                         Qualifying(f.df, HOLIDAYS)))
                         ELSE rows
    /\ di' = di + 1
    /\ UNCHANGED <<dpc, generated_at, flushed, dresp, previous>>

\* Line 127: open(out_file, "w") creates or truncates the file.
RunDailyOpen ==
    /\ dpc = "loop"
    /\ di > Len(symbols)
    /\ dpc' = "write"
    /\ flushed' = 0
    /\ hardFile' = [exists |-> TRUE, lines |-> <<>>]
    /\ previous' = hardFile
    /\ UNCHANGED <<di, rows, generated_at, dresp_raw, outcomes, dresp>>

\* Lines 128-129: the buffered text reaches the file in one or more writes.
RunDailyFlush ==
    /\ dpc = "write"
    /\ LET full == FileLines(generated_at, rows)
       IN  /\ flushed < Len(full)
           /\ \E k \in (flushed + 1)..Len(full) :
                 /\ flushed' = k
                 /\ hardFile' = [exists |-> TRUE, lines |-> SubSeq(full, 1, k)]
    /\ UNCHANGED <<dpc, di, rows, generated_at, dresp_raw, outcomes, dresp,
                   previous>>

\* Lines 129-136: the file is closed and the response returned; the
\* handler's locals are gone.
RunDailyReturn ==
    /\ dpc = "write"
    /\ flushed = Len(FileLines(generated_at, rows))
    /\ dpc' = "idle"
    /\ dresp' = [status |-> HttpOk,
                 error |-> "",
                 stocks_built |-> Len(rows),
                 generated_at |-> generated_at]
    /\ di' = 1 /\ rows' = <<>> /\ outcomes' = <<>> /\ dresp_raw' = Failed
    /\ flushed' = 0 /\ previous' = NoFile
    /\ UNCHANGED <<generated_at, hardFile>>

\* Lines 158-166: the four moving-average counters and the 52-week one.
AllBuckets == {"20MA", "50MA", "100MA", "200MA", "52W"}
ZeroCounts == [b \in AllBuckets |-> [above |-> 0, available |-> 0]]

---------------------------------------------------------------------------
(* /breadth (lines 144-284).                                               *)

\* The answers to the 8-day request of /breadth: the last bar is the quote.
QuoteBar(day, close, high) ==
    [Date |-> Some(day), Close |-> close, High |-> high, w52 |-> NaN]

QuoteDays == {Today - 1, Today}

\* The day's High is at or above its Close.
QuoteResponses ==
    {Failed, NoRows}
    \cup {Answer(<<QuoteBar(d, Some(c), Some(c + (c % 2)))>>) :
            d \in QuoteDays, c \in 0..MaxQuote}
    \cup {Answer(<<QuoteBar(Today, NaN, Some(1))>>),
          Answer(<<QuoteBar(Today, Some(2), NaN)>>),
          Answer(<<QuoteBar(Today, Some(2), None)>>),
          Answer(<<QuoteBar(Today - 1, Some(1), Some(1)),
                   QuoteBar(Today, Some(2), None)>>),
          Answer(<<QuoteBar(Today - 1, Some(0), Some(0)),
                   QuoteBar(Today, Some(3), Some(3))>>)}

\* A small part of them, for the requests that race with a rebuild.
SmallQuoteResponses ==
    {Failed, Answer(<<QuoteBar(Today, Some(2), Some(2))>>)}

\* Lines 153-154: the first line of the file, without its prefix.
ReadTimestamp(lines) ==
    IF Len(lines) = 0 THEN NIL
    ELSE IF lines[1].kind = "comment" THEN Some(lines[1].gen) ELSE NIL

\* Line 156, pd.read_csv(hard_file, comment="#"): comment and empty lines
\* are skipped, the first line left names the columns; with no line left
\* it raises EmptyDataError.
read_csv(lines) ==
    LET body == SelectSeq(lines, LAMBDA l : l.kind \in {"header", "data"})
    IN  IF Len(body) = 0 THEN [error |-> TRUE, df |-> <<>>]
        ELSE [error |-> FALSE,
              df |-> [i \in 1..(Len(body) - 1) |-> body[i + 1].row]]

SumOf(row, j) ==
    CASE j = 1 -> row.sum_19
      [] j = 2 -> row.sum_49
      [] j = 3 -> row.sum_99
      [] j = 4 -> row.sum_199

\* Line 207: ma_value = (sum_val + ltp) / period is zero.
MaIsZero(ltp, sum_val) == sum_val + ltp = 0

\* Line 210: ltp / ma_value >= 1, for ma_value # 0.
RatioAtLeastOne(ltp, sum_val, period) ==
    IF sum_val + ltp > 0 THEN ltp * period >= sum_val + ltp
    ELSE ltp * period <= sum_val + ltp

\* Line 210 raises ZeroDivisionError for some available window of the row.
DividesByZero(row, last) ==
    \E j \in 1..Len(Windows) :
        SumOf(row, j) # NIL /\ MaIsZero(last.Close[1], SumOf(row, j)[1])

\* Line 187: float(last["High"]) raises TypeError for None (float(nan) is
\* nan).
FloatFails(last) == last.High = None

\* Lines 197-216: the counts after one row whose quote arrived.
CountRow(c, row, last) ==
    [b \in AllBuckets |->
        IF b = "52W"
        THEN IF row.high_52w = NaN THEN c[b]
             ELSE [available |-> c[b].available + 1,
                   above |-> c[b].above
                     + (IF last.High # NaN /\ last.High[1] >= row.high_52w[1]
                        THEN 1 ELSE 0)]
        ELSE LET j == CHOOSE k \in 1..Len(Buckets) : Buckets[k] = b
             IN  IF SumOf(row, j) = NIL THEN c[b]
                 ELSE [available |-> c[b].available + 1,
                       above |-> c[b].above
                         + (IF RatioAtLeastOne(last.Close[1],
                                               SumOf(row, j)[1], Periods[j])
                            THEN 1 ELSE 0)]]

\* Lines 176-216: the loop body for one row and one upstream answer.
mutant_failed_quote_counts(c, row, resp) ==
    LET f == fetch_stock_data(resp)
    IN  IF f.none \/ Len(f.df) = 0
        THEN [crash |-> FALSE, error |-> "", ok |-> FALSE,
              counts |-> [b \in AllBuckets |->
                            [above |-> c[b].above,
                             available |-> c[b].available + 1]],
              date |-> NIL]
        ELSE LET last == f.df[Len(f.df)]
             IN  IF FloatFails(last)
                 THEN [crash |-> TRUE, error |-> "TypeError", ok |-> TRUE,
                       counts |-> c, date |-> NIL]
                 ELSE IF DividesByZero(row, last)
                 THEN [crash |-> TRUE, error |-> "ZeroDivisionError",
                       ok |-> TRUE, counts |-> c, date |-> NIL]
                 ELSE [crash |-> FALSE, error |-> "", ok |-> TRUE,
                       counts |-> CountRow(c, row, last), date |-> last.Date]

LoopBody(c, row, resp) ==
    LET f == fetch_stock_data(resp)
    IN  IF f.none \/ Len(f.df) = 0
        THEN [crash |-> FALSE, error |-> "", ok |-> FALSE,
              counts |-> c, date |-> NIL]
        ELSE LET last == f.df[Len(f.df)]
             IN  IF FloatFails(last)
                 THEN [crash |-> TRUE, error |-> "TypeError", ok |-> TRUE,
                       counts |-> c, date |-> NIL]
                 ELSE IF DividesByZero(row, last)
                 THEN [crash |-> TRUE, error |-> "ZeroDivisionError",
                       ok |-> TRUE, counts |-> c, date |-> NIL]
                 ELSE [crash |-> FALSE, error |-> "", ok |-> TRUE,
                       counts |-> CountRow(c, row, last), date |-> last.Date]

\* above / available as a fraction in lowest terms.
Pct(above, available) ==
    LET g == Gcd(above, available)
    IN  <<above \div g, available \div g>>

\* Lines 225-252: one bucket of the output.
BucketOutput(d) ==
    IF d.available = 0
    THEN [above |-> NIL, available |-> 0, pct |-> NIL]
    ELSE [above |-> Some(d.above), available |-> d.available,
          pct |-> Some(Pct(d.above, d.available))]

\* Lines 223-246: nil_found.
mutant_nil_ignores_highs(c) ==
    \E b \in AllBuckets \ {"52W"} : c[b].available = 0

NilFound(c) == \E b \in AllBuckets : c[b].available = 0

\* Line 260.
ShouldSave(c, date) == ~NilFound(c) /\ date # NIL

\* Lines 261-268, as to_csv writes it: the date in its str() form.
ArchiveRow(c, date) ==
    [date |-> IsoFormat(date[1]),
     p20  |-> BucketOutput(c["20MA"]).pct,
     p50  |-> BucketOutput(c["50MA"]).pct,
     p100 |-> BucketOutput(c["100MA"]).pct,
     p200 |-> BucketOutput(c["200MA"]).pct,
     p52  |-> BucketOutput(c["52W"]).pct]

\* Lines 270-277: the rows of the archive file after the write.
mutant_upsert_appends(hist, row) ==
    IF hist.exists THEN Append(hist.rows, row) ELSE <<row>>

Upsert(hist, row) ==
    IF hist.exists
    THEN Append(SelectSeq(hist.rows, LAMBDA r : r.date # row.date), row)
    ELSE <<row>>

\* What an aborted request answers; error names what aborted it.
ErrorResponse(code, error) == [status |-> code, error |-> error]

\* The handler's locals when no request runs.
BreadthLocalsReset ==
    /\ bi' = 1
    /\ hard_timestamp' = NIL
    /\ hard_df' = <<>>
    /\ counts' = ZeroCounts
    /\ last_trading_date' = NIL
    /\ quotes' = 0

\* Lines 147-151.  The exploration of the concurrent service counts its
\* requests; the sequential one does not.
BreadthBegin(counted) ==
    /\ bpc = "idle"
    /\ IF counted THEN nReqs > 0 /\ nReqs' = nReqs - 1 ELSE nReqs' = nReqs
    /\ IF hardFile.exists
       THEN bpc' = "stamp" /\ bresp' = NoResponse
       ELSE bpc' = "idle" /\ bresp' = ErrorResponse(400, "Run /run-daily first")
    /\ UNCHANGED <<bi, hard_timestamp, hard_df, counts, last_trading_date,
                   quotes>>

\* Lines 153-154.
BreadthReadStamp ==
    /\ bpc = "stamp"
    /\ hard_timestamp' = ReadTimestamp(hardFile.lines)
    /\ bpc' = "csv"
    /\ UNCHANGED <<bi, hard_df, counts, last_trading_date, quotes, bresp>>

\* Lines 156-172; an exception ends the request with a 500 response.
BreadthReadCsv ==
    /\ bpc = "csv"
    /\ LET r == read_csv(hardFile.lines)
       IN  IF r.error
           THEN /\ bpc' = "idle"
                /\ bresp' = ErrorResponse(500, "EmptyDataError")
                /\ BreadthLocalsReset
           ELSE /\ bpc' = "loop"
                /\ hard_df' = r.df
                /\ counts' = ZeroCounts
                /\ last_trading_date' = NIL
                /\ UNCHANGED <<bi, hard_timestamp, quotes, bresp>>

\* Lines 174-216: one pass of the loop, for hard_df[bi].
BreadthSymbol(responses) ==
    /\ bpc = "loop"
    /\ bi <= Len(hard_df)
    /\ \E resp \in responses :
          LET r == LoopBody(counts, hard_df[bi], resp)
          IN  IF r.crash
              THEN /\ bpc' = "idle"
                   /\ bresp' = ErrorResponse(500, r.error)
                   /\ BreadthLocalsReset
              ELSE /\ bi' = bi + 1
                   /\ counts' = r.counts
                   /\ last_trading_date' =
                         IF r.ok THEN r.date ELSE last_trading_date
                   /\ quotes' = quotes + (IF r.ok THEN 1 ELSE 0)
                   /\ UNCHANGED <<bpc, bresp, hard_timestamp, hard_df>>

\* Lines 222-284: the output, the write to the archive and the response.
BreadthFinish ==
    /\ bpc = "loop"
    /\ bi > Len(hard_df)
    /\ bpc' = "idle"
    /\ histFile' =
          IF ShouldSave(counts, last_trading_date)
          THEN [exists |-> TRUE,
                rows |-> Upsert(histFile,
                                ArchiveRow(counts, last_trading_date))]
          ELSE histFile
    /\ bresp' = [status |-> HttpOk,
                 error |-> "",
                 hard_data_as_of |-> hard_timestamp,
                 breadth |-> [b \in AllBuckets \ {"52W"} |->
                                BucketOutput(counts[b])],
                 new_52w_highs |-> BucketOutput(counts["52W"])]
    /\ BreadthLocalsReset

---------------------------------------------------------------------------
(* Initial states and the specification of /run-daily alone.               *)

\* No request in progress, no archive.
InitIdleBut ==
    /\ histFile = [exists |-> FALSE, rows |-> <<>>]
    /\ dpc = "idle" /\ di = 1 /\ rows = <<>>
    /\ dresp_raw = Failed /\ outcomes = <<>> /\ flushed = 0
    /\ dresp = NoResponse /\ previous = NoFile
    /\ bpc = "idle" /\ bi = 1 /\ hard_timestamp = NIL
    /\ hard_df = <<>> /\ counts = ZeroCounts /\ last_trading_date = NIL
    /\ quotes = 0 /\ bresp = NoResponse

\* Nothing was ever built.
InitIdle ==
    /\ InitIdleBut
    /\ hardFile = NoFile
    /\ generated_at = 0

InitDaily ==
    /\ InitIdle
    /\ HOLIDAYS \in HolidayChoices
    /\ symbols = <<"A.NS", "B.NS">>
    /\ nRuns = 1
    /\ nReqs = 0

NextDaily ==
    \/ RunDailyBegin /\ UNCHANGED <<HOLIDAYS, symbols, hardFile, histFile, breadthVars, nReqs>>
    \/ RunDailySymbol(HistoryResponses) /\ UNCHANGED <<HOLIDAYS, symbols, hardFile, histFile, breadthVars, nRuns, nReqs>>
    \/ RunDailyOpen /\ UNCHANGED <<HOLIDAYS, symbols, histFile, breadthVars, nRuns, nReqs>>
    \/ RunDailyFlush /\ UNCHANGED <<HOLIDAYS, symbols, histFile, breadthVars, nRuns, nReqs>>
    \/ RunDailyReturn /\ UNCHANGED <<HOLIDAYS, symbols, histFile, breadthVars, nRuns, nReqs>>

SpecDaily == InitDaily /\ [][NextDaily]_vars

---------------------------------------------------------------------------
(* Properties of /run-daily (under SpecDaily).  They speak of the symbol   *)
(* the loop processed last: dresp_raw is what the upstream answered for    *)
(* it, and the last entry of outcomes is how it ended.                     *)

Processed == outcomes # <<>>
LastOutcome == outcomes[Len(outcomes)]
LastSymbol == symbols[Len(outcomes)]
LastRecord == rows[Len(rows)]

\* The bars of an answer that carry a date and a close.
HistoryOf(resp) ==
    SelectSeq(resp.rows, LAMBDA b : ~IsNa(b.Date) /\ ~IsNa(b.Close))
NonHolidayOf(h) == SelectSeq(h, LAMBDA b : b.Date[1] \notin HOLIDAYS)
\* The closed qualifying days: the non-holiday bars but the final one.
ClosedOf(nh) == SubSeq(nh, 1, Len(nh) - 1)
Remaining == ClosedOf(NonHolidayOf(HistoryOf(dresp_raw)))
HolidayOverlap ==
    Len(NonHolidayOf(HistoryOf(dresp_raw))) < Len(HistoryOf(dresp_raw))

\* The sum of the closes of the bars s[lo..hi].
ClosesBetween(s, lo, hi) ==
    LET c == [i \in 1..Len(s) |-> s[i].Close[1]] IN SumRange(c, lo, hi)
\* The sum of the closes of the n most recent bars of s.
RecentCloses(s, n) == ClosesBetween(s, Len(s) - n + 1, Len(s))

\* C5 as stated: exactly 19 closed qualifying days, no holiday overlap,
\* give a record with sum_19 defined and sum_49 unavailable.
C5_Original ==
    (Processed /\ dresp_raw.status = HttpOk /\ ~HolidayOverlap) =>
        LET rem == Remaining
        IN  Len(rem) = 19 =>
              /\ LastOutcome = "built"
              /\ LastRecord.symbol = LastSymbol
              /\ LastRecord.sum_19 = Some(RecentCloses(rem, 19))
              /\ LastRecord.sum_49 = NIL

\* C5 amended: with no holiday overlap, exactly 19 closed qualifying days
\* give no record (the symbol is below the 20-day minimum), and 20 to 48
\* of them give a record whose sum_19 is the sum of the 19 most recent
\* closes and whose sum_49 is unavailable.
C5_NineteenDaysNoRecord ==
    (Processed /\ dresp_raw.status = HttpOk /\ ~HolidayOverlap) =>
        LET rem == Remaining
        IN  /\ Len(rem) = 19 =>
                  /\ LastOutcome = "insufficient"
                  /\ \A i \in 1..Len(rows) : rows[i].symbol # LastSymbol
            /\ (Len(rem) >= 20 /\ Len(rem) < 49) =>
                  /\ LastOutcome = "built"
                  /\ LastRecord.symbol = LastSymbol
                  /\ LastRecord.sum_19 = Some(RecentCloses(rem, 19))
                  /\ LastRecord.sum_49 = NIL

\* A symbol with exactly 19 closed qualifying days was skipped, after a
\* symbol for which a record was built.
C5_Witness ==
    /\ Processed /\ dresp_raw.status = HttpOk /\ ~HolidayOverlap
    /\ Len(Remaining) = 19
    /\ LastOutcome = "insufficient"
    /\ Len(rows) = 1

\* C6: in every record built, sum_N is NIL iff fewer than N closed
\* qualifying days remain, and is otherwise the sum of the closes of the N
\* most recent of them, for N = 19, 49, 99, 199.
C6_SumsOfRecentCloses ==
    (Processed /\ LastOutcome = "built") =>
        LET rem == Remaining
        IN  \A j \in 1..Len(Windows) :
              LET n == Windows[j]
                  stored == SumOf(LastRecord, j)
              IN  /\ stored = NIL <=> Len(rem) < n
                  /\ Len(rem) >= n => stored = Some(RecentCloses(rem, n))

\* A record was built from exactly 49 closed qualifying days.
C6_Witness ==
    /\ Processed /\ LastOutcome = "built"
    /\ Len(Remaining) = 49
    /\ LastRecord.sum_49 # NIL
    /\ LastRecord.sum_99 = NIL

\* C7: holiday bars are removed first: a record is built iff at least 20
\* non-holiday bars precede the last non-holiday bar, that bar is the one
\* dropped, and every stored sum is a sum of closes of the non-holiday bars
\* before it.
C7_HolidaysFilteredFirst ==
    Processed =>
        LET nh == NonHolidayOf(HistoryOf(dresp_raw))
            last == Len(nh)
        IN  /\ LastOutcome = "built" <=>
                  /\ dresp_raw.status = HttpOk
                  /\ last - 1 >= MinQualifyingDays
            /\ LastOutcome = "built" =>
                  \A j \in 1..Len(Windows) :
                      LET n == Windows[j]
                          stored == SumOf(LastRecord, j)
                      IN  stored # NIL =>
                            /\ last - n >= 1
                            /\ stored =
                                 Some(ClosesBetween(nh, last - n, last - 1))

\* A record was built from a history whose final bar is a holiday.
C7_Witness ==
    /\ Processed /\ LastOutcome = "built"
    /\ LET h == HistoryOf(dresp_raw) IN h[Len(h)].Date[1] \in HOLIDAYS

\* The calendar date one year before a date.
YearBefore(d) == <<d[1] - 1, d[2], d[3]>>
NotBefore(a, b) ==
    \/ a[1] > b[1]
    \/ a[1] = b[1] /\ a[2] > b[2]
    \/ a[1] = b[1] /\ a[2] = b[2] /\ a[3] >= b[3]

\* The highest High of the bars of s that have one.
MaxHigh(s) ==
    LET highs == {s[i].High[1] : i \in {k \in 1..Len(s) : s[k].High # NaN}}
    IN  IF highs = {} THEN NaN
        ELSE Some(CHOOSE h \in highs : \A g \in highs : h >= g)

\* C9 as stated: the stored 52-week high is the highest High of the closed
\* qualifying days within one calendar year of the last of them, or of all
\* of them if there is none.
C9_Original ==
    (Processed /\ LastOutcome = "built") =>
        LET rem == Remaining
            last == DateOf(rem[Len(rem)].Date[1])
            year == SelectSeq(rem,
                      LAMBDA b : NotBefore(DateOf(b.Date[1]), YearBefore(last)))
        IN  LastRecord.high_52w =
               IF year # <<>> THEN MaxHigh(year) ELSE MaxHigh(rem)

Count(tag) == Cardinality({i \in 1..Len(outcomes) : outcomes[i] = tag})

\* C10 as stated: the result of the batch reports the four counts.
C10_Original ==
    [][(dpc = "write" /\ dpc' = "idle") =>
          /\ dresp'.status = HttpOk
          /\ {"attempted", "empty_history", "insufficient_history"}
                \subseteq DOMAIN dresp'
          /\ dresp'.attempted = Len(symbols)
          /\ dresp'.empty_history = Count("empty") + Count("fetch_failed")
          /\ dresp'.insufficient_history = Count("insufficient")
          /\ dresp'.stocks_built = Count("built")]_vars

---------------------------------------------------------------------------
(* /breadth requests one after the other, on a hard-data file that a       *)
(* completed /run-daily left behind.                                       *)

\* The records run_daily builds for the symbols syms[i..] from one upstream
\* answer per symbol (the loop of lines 104-124).
RECURSIVE BuildFrom(_, _, _, _)
BuildFrom(syms, answers, holidays, i) ==
    IF i > Len(syms) THEN <<>>
    ELSE LET rest == BuildFrom(syms, answers, holidays, i + 1)
         IN  IF Outcome(answers[i], holidays) = "built"
             THEN <<BuildRow(syms[i],
                             Qualifying(fetch_stock_data(answers[i]).df,
                                        holidays))>> \o rest
             ELSE rest

\* What the upstream answered, symbol by symbol, to the run that built the
\* file: every kind of record set a universe of three symbols can give.
BuildScenarios ==
    LET zero == Answer(Bars(22, 0, "max", "none"))
        long == Answer(Bars(201, 1, "max", "none"))
        blind == Answer(Bars(201, 1, "nan", "none"))
    IN  {<<long, long, long>>,
         <<long, zero, blind>>,
         <<zero, Failed, zero>>,
         <<blind, blind, Failed>>,
         <<zero, blind, Failed>>,
         <<Failed, Failed, Failed>>}

InitBreadth ==
    /\ InitIdleBut
    /\ HOLIDAYS = {Today - 1}
    /\ symbols = <<"A.NS", "B.NS", "C.NS">>
    /\ nRuns = 0
    /\ nReqs = 0
    /\ generated_at = 1
    /\ \E answers \in BuildScenarios :
          hardFile = [exists |-> TRUE,
                      lines |-> FileLines(1, BuildFrom(symbols, answers,
                                                       HOLIDAYS, 1))]

NextBreadth ==
    \/ BreadthBegin(FALSE) /\ UNCHANGED <<HOLIDAYS, symbols, hardFile, histFile, dailyVars, nRuns>>
    \/ BreadthReadStamp /\ UNCHANGED <<HOLIDAYS, symbols, hardFile, histFile, dailyVars, nRuns, nReqs>>
    \/ BreadthReadCsv /\ UNCHANGED <<HOLIDAYS, symbols, hardFile, histFile, dailyVars, nRuns, nReqs>>
    \/ BreadthSymbol(QuoteResponses) /\ UNCHANGED <<HOLIDAYS, symbols, hardFile, histFile, dailyVars, nRuns, nReqs>>
    \/ BreadthFinish /\ UNCHANGED <<HOLIDAYS, symbols, hardFile, dailyVars, nRuns, nReqs>>

SpecBreadth == InitBreadth /\ [][NextBreadth]_vars

---------------------------------------------------------------------------
(* Properties of /breadth and of the archive (under SpecBreadth).          *)

\* A step in which a request builds its output and returns it.
Finishes == bpc = "loop" /\ bpc' = "idle" /\ bresp'.status = HttpOk

\* The part of the response that reports bucket b.
Reported(resp, b) ==
    IF b = "52W" THEN resp.new_52w_highs ELSE resp.breadth[b]

DatedOther(rs, d) == SelectSeq(rs, LAMBDA r : r.date # d)
DatedAt(rs, d) == SelectSeq(rs, LAMBDA r : r.date = d)

\* C1: the archive holds at most one row per trading date; a request that
\* writes (all five buckets available) leaves exactly one row of its date,
\* keeps the number of rows when the date had a row and adds one row when
\* it had none, and keeps every row of any other date as it was.
C1_UpsertByDate ==
    [][/\ \A d \in {histFile'.rows[i].date : i \in 1..Len(histFile'.rows)} :
             Len(DatedAt(histFile'.rows, d)) = 1
       /\ (Finishes /\ \A b \in AllBuckets : counts[b].available > 0) =>
             LET d == IsoFormat(last_trading_date[1])
                 old == histFile.rows
                 new == histFile'.rows
             IN  /\ Len(DatedAt(new, d)) = 1
                 /\ Len(new) = IF Len(DatedAt(old, d)) > 0
                               THEN Len(old) ELSE Len(old) + 1
                 /\ DatedOther(new, d) = DatedOther(old, d)]_vars

\* A second date was added to the archive and the request has returned.
C1_Witness ==
    /\ bpc = "idle" /\ bresp.status = HttpOk
    /\ \A b \in AllBuckets : Reported(bresp, b).pct # NIL
    /\ Len(histFile.rows) = 2
    /\ histFile.rows[1].date # histFile.rows[2].date
    /\ histFile.rows[2].p52 = bresp.new_52w_highs.pct

\* C2: a request that ends with some bucket at available = 0 leaves the
\* archive as it was and reports that bucket with the NIL sentinel; so
\* every row of the archive has all five percentages defined.
C2_IncompleteNotArchived ==
    /\ [](\A i \in 1..Len(histFile.rows) :
            LET r == histFile.rows[i]
            IN  NIL \notin {r.p20, r.p50, r.p100, r.p200, r.p52})
    /\ [][(Finishes /\ \E b \in AllBuckets : counts[b].available = 0) =>
            /\ histFile' = histFile
            /\ \A b \in AllBuckets :
                  counts[b].available = 0 =>
                     /\ Reported(bresp', b).pct = NIL
                     /\ Reported(bresp', b).above = NIL
                     /\ Reported(bresp', b).available = 0]_vars

\* A request returned a snapshot whose only unavailable bucket is the
\* 52-week one.
C2_Witness ==
    /\ bpc = "idle" /\ bresp.status = HttpOk
    /\ bresp.new_52w_highs.pct = NIL
    /\ bresp.new_52w_highs.available = 0
    /\ \A b \in AllBuckets \ {"52W"} : bresp.breadth[b].available > 0

\* C3: whenever the loop is about to process a row, any quote that makes a
\* moving average of an available window exactly 0 is processed without a
\* division by zero and counts toward available and not toward above.
C3_ZeroAverageNotAbove ==
    (bpc = "loop" /\ bi <= Len(hard_df)) =>
        \A resp \in QuoteResponses :
            LET f == fetch_stock_data(resp)
                row == hard_df[bi]
            IN  (~f.none /\ Len(f.df) > 0) =>
                  LET ltp == f.df[Len(f.df)].Close[1]
                      r == LoopBody(counts, row, resp)
                  IN  \A j \in 1..Len(Windows) :
                        (SumOf(row, j) # NIL /\ SumOf(row, j)[1] + ltp = 0) =>
                           /\ ~r.crash
                           /\ r.counts[Buckets[j]].available
                                 = counts[Buckets[j]].available + 1
                           /\ r.counts[Buckets[j]].above
                                 = counts[Buckets[j]].above

\* C8: a row whose quote fetch fails or is empty changes no counter and not
\* the date, no step of a request changes the hard-data file, and no
\* bucket has more available symbols than quotes arrived.
C8_FailedQuoteExcluded ==
    /\ [](\A b \in AllBuckets : counts[b].available <= quotes)
    /\ [][/\ Finishes =>
                \A b \in AllBuckets :
                    Reported(bresp', b).available <= quotes
          /\ (bpc = "loop" /\ bi' = bi + 1 /\ quotes' = quotes) =>
                (counts' = counts /\ last_trading_date' = last_trading_date)
          /\ bpc # "idle" => hardFile' = hardFile]_vars

\* Three symbols, the quote of one failed: two are available.
C8_Witness ==
    /\ bpc = "loop"
    /\ Len(hard_df) = 3 /\ bi = 4 /\ quotes = 2
    /\ counts["20MA"].available = 2

---------------------------------------------------------------------------
(* The whole service: one /run-daily and one /breadth request at a time,   *)
(* running concurrently on the same universe.                              *)

Init ==
    /\ InitIdle
    /\ HOLIDAYS = {Today - 1}
    /\ symbols = <<"A.NS", "B.NS", "C.NS">>
    /\ nRuns = MaxRuns
    /\ nReqs = MaxRequests

Next ==
    \/ RunDailyBegin /\ UNCHANGED <<HOLIDAYS, symbols, hardFile, histFile, breadthVars, nReqs>>
    \/ RunDailySymbol(SmallHistoryResponses) /\ UNCHANGED <<HOLIDAYS, symbols, hardFile, histFile, breadthVars, nRuns, nReqs>>
    \/ RunDailyOpen /\ UNCHANGED <<HOLIDAYS, symbols, histFile, breadthVars, nRuns, nReqs>>
    \/ RunDailyFlush /\ UNCHANGED <<HOLIDAYS, symbols, histFile, breadthVars, nRuns, nReqs>>
    \/ RunDailyReturn /\ UNCHANGED <<HOLIDAYS, symbols, histFile, breadthVars, nRuns, nReqs>>
    \/ BreadthBegin(TRUE) /\ UNCHANGED <<HOLIDAYS, symbols, hardFile, histFile, dailyVars, nRuns>>
    \/ BreadthReadStamp /\ UNCHANGED <<HOLIDAYS, symbols, hardFile, histFile, dailyVars, nRuns, nReqs>>
    \/ BreadthReadCsv /\ UNCHANGED <<HOLIDAYS, symbols, hardFile, histFile, dailyVars, nRuns, nReqs>>
    \/ BreadthSymbol(SmallQuoteResponses) /\ UNCHANGED <<HOLIDAYS, symbols, hardFile, histFile, dailyVars, nRuns, nReqs>>
    \/ BreadthFinish /\ UNCHANGED <<HOLIDAYS, symbols, hardFile, dailyVars, nRuns, nReqs>>

Spec == Init /\ [][Next]_vars

\* C4: the file that a request parses (line 156) while a rebuild is
\* writing is the complete file of the previous rebuild or the complete
\* file of the new one.
C4_Original ==
    [][(bpc = "csv" /\ bpc' # "csv" /\ dpc = "write") =>
          hardFile.lines \in
             {FileLines(generated_at, rows)}
             \cup (IF previous.exists THEN {previous.lines} ELSE {})]_vars

====
